---- MODULE Spec2Model ----
(***************************************************************************)
(* A model of security/middleware.py: the policy units (middlewares), the  *)
(* settings they are built from, and the request/response pipeline that    *)
(* runs them.  Strings are sequences of one-character strings, so that     *)
(* stripping, prefix matching and concatenation are computed, not assumed. *)
(***************************************************************************)
EXTENDS Integers, Sequences, FiniteSets, TLC

VARIABLES
    settings,        \* django.conf.settings: the configured values (fixed after start)
    installed,       \* names of the units whose constructor succeeded, in order
    inst,            \* the instance attributes the constructors assigned
    clock,           \* datetime.now(), in ticks of 1/TicksPerSecond second
    session,         \* request.session: the client's key-value store
    userActive,      \* user.is_active of the account the session may belong to
    pwExpired,       \* what password_is_expired(user) answers at present
    pc,              \* position of the pipeline: idle, request, handler, response, error
    idx,             \* index of the next unit to run in the current phase
    request,         \* the request being served
    response,        \* the response being built (NoResponse before there is one)
    nreq             \* number of requests served so far

vars == <<settings, installed, inst, clock, session, userActive, pwExpired,
          pc, idx, request, response, nreq>>

----------------------------------------------------------------------------
(* Bounds of the model *)

MaxRequests == 3
TicksPerSecond == 2
MaxPathLen == 2
CookieAgeSetting == 3
TimeoutSetting == 2
MaxCspItems == 2

----------------------------------------------------------------------------
(* Strings and maps *)

EmptyMap == [k \in {} |-> k]

Put(m, k, v) == [x \in (DOMAIN m) \cup {k} |-> IF x = k THEN v ELSE m[x]]

Has(m, k) == k \in DOMAIN m

Chars == {"/", "a", "b"}

SeqsUpTo(S, n) == UNION {[1..k -> S] : k \in 0..n}

IsPrefix(p, s) == Len(p) <= Len(s) /\ SubSeq(s, 1, Len(p)) = p

RECURSIVE lstrip(_, _)
lstrip(s, c) == IF s # <<>> /\ Head(s) = c THEN lstrip(Tail(s), c) ELSE s

(* A compiled regular expression of the form  lit  or  lit$ :  re.match   *)
(* anchors at the start of the string and, without $, accepts any rest.    *)
compile(lit, dollar) == [lit |-> lit, dollar |-> dollar]

re_match(re, s) == IsPrefix(re.lit, s) /\ (re.dollar => Len(s) = Len(re.lit))

any_match(s, match_list) == \E i \in 1..Len(match_list) : re_match(match_list[i], s)

(* A setting is either absent from the settings module or has a value. *)
Unset == [set |-> FALSE]
Value(v) == [set |-> TRUE, val |-> v]
hasattr(s) == s.set

----------------------------------------------------------------------------
(* Responses *)

NoResponse == [status |-> 0, headers |-> EmptyMap, body |-> <<>>]

HttpResponse(body, status, mimetype) ==
    [status |-> status, headers |-> [x \in {"Content-Type"} |-> mimetype], body |-> body]

HttpResponseRedirect(url) ==
    [status |-> 302, headers |-> [x \in {"Location"} |-> url], body |-> <<>>]

json_dumps_login_url(url) == <<"{", "\"login_url\"", ":", " ", "\"">> \o url \o <<"\"", "}">>

----------------------------------------------------------------------------
(* The host's authentication: the identity is read from the session the    *)
(* first time request.user is used, and kept for the rest of the request.  *)

SESSION_KEY == "_auth_user_id"

get_user(sess) == IF Has(sess, SESSION_KEY) THEN "user" ELSE "anonymous"

request_user(req, sess) == IF req.user = "lazy" THEN get_user(sess) ELSE req.user

is_authenticated(u) == u = "user"

----------------------------------------------------------------------------
(* SessionExpiryPolicyMiddleware *)

START_TIME_KEY == "starttime"
LAST_ACTIVITY_KEY == "lastactivity"
SECONDS_PER_DAY == 86400
DEFAULT_SESSION_COOKIE_AGE == 86400
DEFAULT_SESSION_INACTIVITY_TIMEOUT == 1800

SESSION_COOKIE_AGE ==
    IF hasattr(settings.SESSION_COOKIE_AGE)
    THEN settings.SESSION_COOKIE_AGE.val ELSE DEFAULT_SESSION_COOKIE_AGE

SESSION_INACTIVITY_TIMEOUT ==
    IF hasattr(settings.SESSION_INACTIVITY_TIMEOUT)
    THEN settings.SESSION_INACTIVITY_TIMEOUT.val ELSE DEFAULT_SESSION_INACTIVITY_TIMEOUT

(* now - then as a timedelta: days and seconds, the sub-second part apart *)
timedelta_days(now, then) == (now - then) \div (SECONDS_PER_DAY * TicksPerSecond)

timedelta_seconds(now, then) ==
    ((now - then) % (SECONDS_PER_DAY * TicksPerSecond)) \div TicksPerSecond

session_too_old_inclusive(sess, now) ==
    timedelta_days(now, sess[START_TIME_KEY]) * SECONDS_PER_DAY
        + timedelta_seconds(now, sess[START_TIME_KEY]) >= SESSION_COOKIE_AGE

session_too_old(sess, now) ==
    timedelta_days(now, sess[START_TIME_KEY]) * SECONDS_PER_DAY
        + timedelta_seconds(now, sess[START_TIME_KEY]) > SESSION_COOKIE_AGE

session_inactive_inclusive(sess, now) ==
    timedelta_days(now, sess[LAST_ACTIVITY_KEY]) * SECONDS_PER_DAY
        + timedelta_seconds(now, sess[LAST_ACTIVITY_KEY]) >= SESSION_INACTIVITY_TIMEOUT

session_inactive(sess, now) ==
    timedelta_days(now, sess[LAST_ACTIVITY_KEY]) * SECONDS_PER_DAY
        + timedelta_seconds(now, sess[LAST_ACTIVITY_KEY]) > SESSION_INACTIVITY_TIMEOUT

is_new_session(sess) == ~Has(sess, START_TIME_KEY) \/ ~Has(sess, LAST_ACTIVITY_KEY)

session_expired(sess, now) == session_too_old(sess, now) \/ session_inactive(sess, now)

(* process_request: the session it leaves; it always returns None *)
SessionExpiry_keeps_markers(req, sess, now) ==
    IF is_new_session(sess)
    THEN [session |-> Put(Put(sess, START_TIME_KEY,
                              IF Has(sess, START_TIME_KEY) THEN sess[START_TIME_KEY] ELSE now),
                          LAST_ACTIVITY_KEY, now),
          user |-> req.user, response |-> NoResponse, raised |-> FALSE]
    ELSE IF session_expired(sess, now)
    THEN [session |-> EmptyMap,
          user |-> req.user, response |-> NoResponse, raised |-> FALSE]
    ELSE [session |-> Put(sess, LAST_ACTIVITY_KEY, now),
          user |-> req.user, response |-> NoResponse, raised |-> FALSE]

SessionExpiry_pops_markers(req, sess, now) ==
    IF is_new_session(sess)
    THEN [session |-> Put(Put(sess, START_TIME_KEY, now), LAST_ACTIVITY_KEY, now),
          user |-> req.user, response |-> NoResponse, raised |-> FALSE]
    ELSE IF session_expired(sess, now)
    THEN [session |-> [k \in (DOMAIN sess) \ {START_TIME_KEY, LAST_ACTIVITY_KEY} |-> sess[k]],
          user |-> req.user, response |-> NoResponse, raised |-> FALSE]
    ELSE [session |-> Put(sess, LAST_ACTIVITY_KEY, now),
          user |-> req.user, response |-> NoResponse, raised |-> FALSE]

SessionExpiry_slides_start(req, sess, now) ==
    IF is_new_session(sess)
    THEN [session |-> Put(Put(sess, START_TIME_KEY, now), LAST_ACTIVITY_KEY, now),
          user |-> req.user, response |-> NoResponse, raised |-> FALSE]
    ELSE IF session_expired(sess, now)
    THEN [session |-> EmptyMap,
          user |-> req.user, response |-> NoResponse, raised |-> FALSE]
    ELSE [session |-> Put(Put(sess, START_TIME_KEY, now), LAST_ACTIVITY_KEY, now),
          user |-> req.user, response |-> NoResponse, raised |-> FALSE]

SessionExpiry_process_request(req, sess, now) ==
    IF is_new_session(sess)
    THEN [session |-> Put(Put(sess, START_TIME_KEY, now), LAST_ACTIVITY_KEY, now),
          user |-> req.user, response |-> NoResponse, raised |-> FALSE]
    ELSE IF session_expired(sess, now)
    THEN [session |-> EmptyMap,
          user |-> req.user, response |-> NoResponse, raised |-> FALSE]
    ELSE [session |-> Put(sess, LAST_ACTIVITY_KEY, now),
          user |-> req.user, response |-> NoResponse, raised |-> FALSE]

----------------------------------------------------------------------------
(* LoginRequiredMiddleware *)

EXEMPT_URLS ==
    IF hasattr(settings.LOGIN_EXEMPT_URLS) THEN settings.LOGIN_EXEMPT_URLS.val ELSE <<>>

login_is_exempt_unstripped(req) == any_match(req.path_info, EXEMPT_URLS)

login_is_exempt(req) == any_match(lstrip(req.path_info, "/"), EXEMPT_URLS)

login_response_path_info(req) ==
    IF req.is_ajax
    THEN HttpResponse(json_dumps_login_url(settings.LOGIN_URL), 401, "application/json")
    ELSE HttpResponseRedirect(settings.LOGIN_URL \o <<"?next=">> \o req.path_info)

login_response(req) ==
    IF req.is_ajax
    THEN HttpResponse(json_dumps_login_url(settings.LOGIN_URL), 401, "application/json")
    ELSE HttpResponseRedirect(settings.LOGIN_URL \o <<"?next=">> \o req.path)

LoginRequired_process_request(req, sess) ==
    IF ~req.has_user
    THEN [session |-> sess, user |-> req.user, response |-> NoResponse, raised |-> TRUE]
    ELSE
      LET u0 == request_user(req, sess)
          out == is_authenticated(u0) /\ ~userActive
          \* logout(request): the session is flushed, request.user is anonymous
          sess1 == IF out THEN EmptyMap ELSE sess
          u1 == IF out THEN "anonymous" ELSE u0
      IN  [session |-> sess1, user |-> u1, raised |-> FALSE,
           response |-> IF ~is_authenticated(u1) /\ ~login_is_exempt(req)
                        THEN login_response(req) ELSE NoResponse]

----------------------------------------------------------------------------
(* MandatoryPasswordChangeMiddleware *)

(* The host's URL configuration: reverse(name) is the path of a named      *)
(* route, under the script prefix; a name without a route does not resolve *)
UrlNames == {"password_change", "home"}

reverse(name) == IF name = "password_change" THEN <<"/", "a">> ELSE <<"/", "b">>

RECURSIVE map_reverse(_)
map_reverse(names) ==
    IF names = <<>> THEN <<>> ELSE <<reverse(Head(names))>> \o map_reverse(Tail(names))

InSeq(x, s) == \E i \in 1..Len(s) : s[i] = x

NotUsed == [status |-> "MiddlewareNotUsed", attrs |-> EmptyMap]
Installed(attrs) == [status |-> "installed", attrs |-> attrs]

MandatoryPasswordChange_init ==
    IF ~hasattr(settings.MANDATORY_PASSWORD_CHANGE) THEN NotUsed
    ELSE LET config == settings.MANDATORY_PASSWORD_CHANGE.val IN
      IF ~Has(config, "URL_NAME") \/ ~Has(config, "EXEMPT_URL_NAMES") THEN NotUsed
      ELSE IF config["URL_NAME"] \notin UrlNames
              \/ \E i \in 1..Len(config["EXEMPT_URL_NAMES"]) :
                    config["EXEMPT_URL_NAMES"][i] \notin UrlNames
      THEN NotUsed
      ELSE Installed([password_change_url |-> reverse(config["URL_NAME"]),
                      exempt_urls |-> <<reverse(config["URL_NAME"])>>
                                        \o map_reverse(config["EXEMPT_URL_NAMES"])])

password_is_expired(u) == pwExpired

password_change_exempt_no_static(self, req, sess) ==
    \/ ~is_authenticated(request_user(req, sess))
    \/ InSeq(req.path, self.exempt_urls)

password_change_exempt(self, req, sess) ==
    \/ ~is_authenticated(request_user(req, sess))
    \/ req.view = "django.views.static.serve"
    \/ InSeq(req.path, self.exempt_urls)

MandatoryPasswordChange_process_view(self, req, sess) ==
    IF ~req.has_user
    THEN [session |-> sess, user |-> req.user, response |-> NoResponse, raised |-> TRUE]
    ELSE [session |-> sess, user |-> request_user(req, sess), raised |-> FALSE,
          response |-> IF ~password_change_exempt(self, req, sess)
                          /\ password_is_expired(request_user(req, sess))
                       THEN HttpResponseRedirect(self.password_change_url)
                       ELSE NoResponse]

----------------------------------------------------------------------------
(* NoConfidentialCachingMiddleware *)

config_get(config, key, default) == IF Has(config, key) THEN config[key] ELSE default

NoConfidentialCaching_init ==
    IF ~hasattr(settings.NO_CONFIDENTIAL_CACHING) THEN NotUsed
    ELSE LET config == settings.NO_CONFIDENTIAL_CACHING.val
             whitelist == config_get(config, "WHITELIST_ON", FALSE)
             blacklist == config_get(config, "BLACKLIST_ON", FALSE)
      IN IF \/ whitelist /\ ~Has(config, "WHITELIST_REGEXES")
            \/ blacklist /\ ~Has(config, "BLACKLIST_REGEXES")
         THEN NotUsed
         ELSE Installed([whitelist |-> whitelist,
                         whitelist_url_regexes |->
                             IF whitelist THEN config["WHITELIST_REGEXES"] ELSE <<>>,
                         blacklist |-> blacklist,
                         blacklist_url_regexes |->
                             IF blacklist THEN config["BLACKLIST_REGEXES"] ELSE <<>>])

cache_match(path, match_list) == any_match(lstrip(path, "/"), match_list)

cache_control == "no-cache, no-store, private"

SetHeader(resp, name, value) == [resp EXCEPT !.headers = Put(@, name, value)]

NoConfidentialCaching_exclusive(self, req, resp) ==
    IF self.whitelist
    THEN IF ~cache_match(req.path, self.whitelist_url_regexes)
         THEN SetHeader(resp, "Cache-Control", cache_control) ELSE resp
    ELSE IF self.blacklist /\ cache_match(req.path, self.blacklist_url_regexes)
         THEN SetHeader(resp, "Cache-Control", cache_control) ELSE resp

NoConfidentialCaching_process_response(self, req, resp) ==
    LET r1 == IF self.whitelist /\ ~cache_match(req.path, self.whitelist_url_regexes)
              THEN SetHeader(resp, "Cache-Control", cache_control) ELSE resp
    IN  IF self.blacklist /\ cache_match(req.path, self.blacklist_url_regexes)
        THEN SetHeader(r1, "Cache-Control", cache_control) ELSE r1

----------------------------------------------------------------------------
(* ContentSecurityPolicyMiddleware *)

_CSP_LOC_TYPES == {"default-src", "script-src", "style-src", "img-src", "connect-src",
                   "font-src", "object-src", "media-src", "frame-src"}

_CSP_LOCATIONS == {"self", "none", "unsave-eval", "unsafe-inline"}

_CSP_SANDBOX_ARGS == {"", "allow-forms", "allow-same-origin", "allow-scripts",
                      "allow-top-navigation"}

RECURSIVE csp_locations(_)
csp_locations(v) ==
    IF v = <<>> THEN <<>>
    ELSE (IF Head(v) \in _CSP_LOCATIONS
          THEN <<" ", "'", Head(v), "'", " ">> ELSE <<" ", Head(v), " ">>)
         \o csp_locations(Tail(v))

RECURSIVE csp_sandbox(_)
csp_sandbox(v) ==
    IF v = <<>> THEN <<>> ELSE <<" ", Head(v), " ">> \o csp_sandbox(Tail(v))

(* One (k, v) item of the dictionary: the text it appends, or the raise *)
csp_item(k, v) ==
    IF k \in _CSP_LOC_TYPES
    THEN [raised |-> FALSE, text |-> <<" ", k, " ">> \o csp_locations(v) \o <<";">>]
    ELSE IF k = "sandbox"
    THEN IF \A i \in 1..Len(v) : v[i] \in _CSP_SANDBOX_ARGS
         THEN [raised |-> FALSE, text |-> csp_sandbox(v) \o <<";">>]
         ELSE [raised |-> TRUE, text |-> <<>>]
    ELSE IF k = "report-uri"
    THEN [raised |-> FALSE, text |-> v \o <<";">>]
    ELSE [raised |-> TRUE, text |-> <<>>]

(* csp_dict is the dictionary as the sequence of its items in iteration order *)
RECURSIVE _csp_builder(_)
_csp_builder(csp_dict) ==
    IF csp_dict = <<>> THEN [raised |-> FALSE, text |-> <<>>]
    ELSE LET it == csp_item(Head(csp_dict)[1], Head(csp_dict)[2])
             rest == _csp_builder(Tail(csp_dict))
         IN  IF it.raised \/ rest.raised THEN [raised |-> TRUE, text |-> <<>>]
             ELSE [raised |-> FALSE, text |-> it.text \o rest.text]

ContentSecurityPolicy_init_prefers_dict ==
    LET has_csp_string == hasattr(settings.CSP_STRING)
        has_csp_dict == hasattr(settings.CSP_DICT)
        mode_ok == ~hasattr(settings.CSP_MODE)
                      \/ settings.CSP_MODE.val \in {"enforce", "report-only"}
        enforce == ~hasattr(settings.CSP_MODE) \/ settings.CSP_MODE.val = "enforce"
    IN  IF ~mode_ok THEN NotUsed
        ELSE IF ~(has_csp_string \/ has_csp_dict) THEN NotUsed
        ELSE IF has_csp_dict
        THEN IF _csp_builder(settings.CSP_DICT.val).raised THEN NotUsed
             ELSE Installed([_enforce |-> enforce,
                             _csp_string |-> _csp_builder(settings.CSP_DICT.val).text])
        ELSE Installed([_enforce |-> enforce, _csp_string |-> settings.CSP_STRING.val])

ContentSecurityPolicy_init ==
    LET has_csp_string == hasattr(settings.CSP_STRING)
        has_csp_dict == hasattr(settings.CSP_DICT)
        mode_ok == ~hasattr(settings.CSP_MODE)
                      \/ settings.CSP_MODE.val \in {"enforce", "report-only"}
        enforce == ~hasattr(settings.CSP_MODE) \/ settings.CSP_MODE.val = "enforce"
    IN  IF ~mode_ok THEN NotUsed
        ELSE IF ~(has_csp_string \/ has_csp_dict) THEN NotUsed
        ELSE IF has_csp_dict /\ has_csp_string THEN NotUsed
        ELSE IF has_csp_string
        THEN Installed([_enforce |-> enforce, _csp_string |-> settings.CSP_STRING.val])
        ELSE IF _csp_builder(settings.CSP_DICT.val).raised THEN NotUsed
        ELSE Installed([_enforce |-> enforce,
                        _csp_string |-> _csp_builder(settings.CSP_DICT.val).text])

csp_headers(self) ==
    IF self._enforce
    THEN <<"X-Content-Security-Policy", "Content-Security-Policy", "X-WebKit-CSP">>
    ELSE <<"X-Content-Security-Policy-Report-Only", "Content-Security-Policy-Report-Only">>

RECURSIVE SetHeaders(_, _, _)
SetHeaders(resp, names, value) ==
    IF names = <<>> THEN resp
    ELSE SetHeaders(SetHeader(resp, Head(names), value), Tail(names), value)

ContentSecurityPolicy_process_response(self, req, resp) ==
    SetHeaders(resp, csp_headers(self), self._csp_string)

----------------------------------------------------------------------------
(* The header units. Their settings are strings, held as sequences of      *)
(* characters so that str.lower() and str.startswith() are computed.       *)

UpperToLower ==
    [A |-> "a", D |-> "d", E |-> "e", F |-> "f", N |-> "n", O |-> "o", Y |-> "y"]

lower_char(c) == IF c \in DOMAIN UpperToLower THEN UpperToLower[c] ELSE c

lower(s) == [i \in 1..Len(s) |-> lower_char(s[i])]

startswith(s, prefix) == IsPrefix(prefix, s)

(* An exception other than MiddlewareNotUsed leaves the constructor *)
Raised(exception) == [status |-> exception, attrs |-> EmptyMap]

XSS_ON == <<"o", "n">>
XSS_OFF == <<"o", "f", "f">>
XSS_SANITIZE == <<"s", "a", "n", "i", "t", "i", "z", "e">>

xss_options_keys == {XSS_ON, XSS_OFF, XSS_SANITIZE}

xss_options(option) ==
    CASE option = XSS_ON -> "1; mode=block"
      [] option = XSS_OFF -> "0"
      [] option = XSS_SANITIZE -> "1"

XssProtect_init ==
    IF ~hasattr(settings.XSS_PROTECT) THEN Installed([option |-> XSS_ON])
    ELSE LET option == lower(settings.XSS_PROTECT.val) IN
         IF option \in xss_options_keys THEN Installed([option |-> option])
         ELSE Raised("AssertionError")

XssProtect_process_response(self, req, resp) ==
    SetHeader(resp, "X-XSS-Protection", xss_options(self.option))

ContentNoSniff_process_response(req, resp) ==
    SetHeader(resp, "X-Content-Options", "nosniff")

XFO_SAMEORIGIN == <<"s", "a", "m", "e", "o", "r", "i", "g", "i", "n">>
XFO_DENY == <<"d", "e", "n", "y">>
XFO_ALLOW_FROM == <<"a", "l", "l", "o", "w", "-", "f", "r", "o", "m", ":">>

XFrameOptions_init ==
    IF ~hasattr(settings.X_FRAME_OPTIONS) THEN Installed([option |-> XFO_SAMEORIGIN])
    ELSE LET option == lower(settings.X_FRAME_OPTIONS.val) IN
         IF option = XFO_SAMEORIGIN \/ option = XFO_DENY \/ startswith(option, XFO_ALLOW_FROM)
         THEN Installed([option |-> option])
         ELSE Raised("AssertionError")

XFrameOptions_process_response(self, req, resp) ==
    SetHeader(resp, "X-Frame-Options", self.option)

STS_DEFAULT_MAX_AGE == 3600 * 24 * 365

(* 'max-age={0}'.format(max_age), then ' ; includeSubDomains' *)
sts_value(max_age, subdomains) ==
    <<"max-age=", ToString(max_age)>>
        \o (IF subdomains THEN <<" ; includeSubDomains">> ELSE <<>>)

(* One try block reads both settings: a missing one sends both to defaults *)
StrictTransportSecurity_init ==
    LET both == hasattr(settings.STS_MAX_AGE) /\ hasattr(settings.STS_INCLUDE_SUBDOMAINS)
        max_age == IF both THEN settings.STS_MAX_AGE.val ELSE STS_DEFAULT_MAX_AGE
        subdomains == IF both THEN settings.STS_INCLUDE_SUBDOMAINS.val ELSE TRUE
    IN  Installed([max_age |-> max_age, subdomains |-> subdomains,
                   value |-> sts_value(max_age, subdomains)])

StrictTransportSecurity_process_response(self, req, resp) ==
    SetHeader(resp, "Strict-Transport-Security", self.value)

(* With P3P_POLICY_URL missing the handler evaluates long.info, and the    *)
(* type long has no attribute info                                         *)
P3PPolicy_init ==
    IF ~hasattr(settings.P3P_COMPACT_POLICY) THEN NotUsed
    ELSE IF ~hasattr(settings.P3P_POLICY_URL) THEN Raised("AttributeError")
    ELSE Installed([policy_url |-> settings.P3P_POLICY_URL.val,
                    policy |-> settings.P3P_COMPACT_POLICY.val])

P3PPolicy_process_response(self, req, resp) ==
    SetHeader(resp, "P3P",
              <<"policyref=\"">> \o self.policy_url \o <<"\" CP=\"">>
                  \o self.policy \o <<"\"">>)

----------------------------------------------------------------------------
(* Pipeline assembly: each configured class is constructed once; a class   *)
(* whose constructor raises MiddlewareNotUsed is left out of the pipeline  *)

construct(name) ==
    CASE name = "MandatoryPasswordChange" -> MandatoryPasswordChange_init
      [] name = "NoConfidentialCaching" -> NoConfidentialCaching_init
      [] name = "ContentSecurityPolicy" -> ContentSecurityPolicy_init
      [] name = "XssProtect" -> XssProtect_init
      [] name = "XFrameOptions" -> XFrameOptions_init
      [] name = "StrictTransportSecurity" -> StrictTransportSecurity_init
      [] name = "P3PPolicy" -> P3PPolicy_init
      [] OTHER -> Installed(EmptyMap)

is_used(name) == construct(name).status = "installed"

(* Only MiddlewareNotUsed is caught while the classes are constructed *)
load_raises ==
    \E i \in 1..Len(settings.MIDDLEWARE_CLASSES) :
        construct(settings.MIDDLEWARE_CLASSES[i]).status
            \notin {"installed", "MiddlewareNotUsed"}

load_middleware ==
    IF load_raises THEN <<>> ELSE SelectSeq(settings.MIDDLEWARE_CLASSES, is_used)

instances ==
    [n \in {settings.MIDDLEWARE_CLASSES[i] : i \in 1..Len(settings.MIDDLEWARE_CLASSES)}
        |-> construct(n).attrs]

BaseSettings ==
    [MIDDLEWARE_CLASSES |-> <<>>,
     AUTHENTICATION |-> TRUE,
     LOGIN_URL |-> <<"/", "a">>,
     LOGIN_EXEMPT_URLS |-> Unset,
     SESSION_COOKIE_AGE |-> Unset,
     SESSION_INACTIVITY_TIMEOUT |-> Unset,
     MANDATORY_PASSWORD_CHANGE |-> Unset,
     NO_CONFIDENTIAL_CACHING |-> Unset,
     CSP_MODE |-> Unset,
     CSP_STRING |-> Unset,
     CSP_DICT |-> Unset,
     XSS_PROTECT |-> Unset,
     X_FRAME_OPTIONS |-> Unset,
     STS_MAX_AGE |-> Unset,
     STS_INCLUDE_SUBDOMAINS |-> Unset,
     P3P_COMPACT_POLICY |-> Unset,
     P3P_POLICY_URL |-> Unset]

NoRequest ==
    [path_info |-> <<>>, path |-> <<>>, is_ajax |-> FALSE, user |-> "lazy",
     has_user |-> FALSE, view |-> "", handled |-> FALSE]

InitWith(SettingsSet, Sessions) ==
    /\ settings \in SettingsSet
    /\ installed = load_middleware
    /\ inst = instances
    /\ clock = 0
    /\ session \in Sessions
    /\ userActive = TRUE
    /\ pwExpired = FALSE
    /\ pc = "idle"
    /\ idx = 1
    /\ request = NoRequest
    /\ response = NoResponse
    /\ nreq = 0

----------------------------------------------------------------------------
(* The pipeline executor *)

Pass(req, sess) ==
    [session |-> sess, user |-> req.user, response |-> NoResponse, raised |-> FALSE]

process_request(name, req, sess, now) ==
    CASE name = "SessionExpiryPolicy" -> SessionExpiry_process_request(req, sess, now)
      [] name = "LoginRequired" -> LoginRequired_process_request(req, sess)
      [] OTHER -> Pass(req, sess)

process_view(req, sess) ==
    IF InSeq("MandatoryPasswordChange", installed)
    THEN MandatoryPasswordChange_process_view(inst["MandatoryPasswordChange"], req, sess)
    ELSE Pass(req, sess)

process_response(name, req, resp) ==
    CASE name = "NoConfidentialCaching" ->
            NoConfidentialCaching_process_response(inst[name], req, resp)
      [] name = "ContentSecurityPolicy" ->
            ContentSecurityPolicy_process_response(inst[name], req, resp)
      [] name = "XssProtect" -> XssProtect_process_response(inst[name], req, resp)
      [] name = "ContentNoSniff" -> ContentNoSniff_process_response(req, resp)
      [] name = "XFrameOptions" -> XFrameOptions_process_response(inst[name], req, resp)
      [] name = "StrictTransportSecurity" ->
            StrictTransportSecurity_process_response(inst[name], req, resp)
      [] name = "P3PPolicy" -> P3PPolicy_process_response(inst[name], req, resp)
      [] OTHER -> resp

(* A request arrives: time has passed, and the account may have changed.   *)
(* The host assembles the pipeline on a request and forgets a failed       *)
(* assembly, so each request of a process whose assembly raises, fails.    *)
Arrive(PathInfos, Prefixes, Ajaxes, Views, Steps, Actives, Expireds) ==
    /\ pc = "idle"
    /\ nreq < MaxRequests
    /\ \E p \in PathInfos, pre \in Prefixes, ajax \in Ajaxes, v \in Views :
          request' = [path_info |-> p, path |-> pre \o p, is_ajax |-> ajax,
                      user |-> "lazy", has_user |-> settings.AUTHENTICATION,
                      view |-> v, handled |-> FALSE]
    /\ \E dt \in Steps : clock' = clock + dt
    /\ userActive' \in Actives
    /\ pwExpired' \in Expireds
    /\ response' = NoResponse
    /\ pc' = IF load_raises THEN "error" ELSE "request"
    /\ idx' = 1
    /\ nreq' = nreq + 1
    /\ UNCHANGED <<settings, installed, inst, session>>

Outcome(r) ==
    /\ session' = r.session
    /\ request' = [request EXCEPT !.user = r.user]
    /\ response' = r.response

(* The next unit's on-request hook *)
RequestStep ==
    /\ pc = "request"
    /\ idx <= Len(installed)
    /\ LET r == process_request(installed[idx], request, session, clock) IN
          /\ Outcome(r)
          /\ pc' = IF r.raised THEN "error"
                   ELSE IF r.response # NoResponse THEN "response" ELSE "request"
          /\ idx' = IF r.raised THEN idx
                    ELSE IF r.response # NoResponse THEN 1 ELSE idx + 1
    /\ UNCHANGED <<settings, installed, inst, clock, userActive, pwExpired, nreq>>

(* After the on-request hooks: the view hooks, then the handler *)
ViewStep ==
    /\ pc = "request"
    /\ idx > Len(installed)
    /\ LET r == process_view(request, session) IN
          /\ Outcome(r)
          /\ pc' = IF r.raised THEN "error"
                   ELSE IF r.response # NoResponse THEN "response" ELSE "handler"
          /\ idx' = 1
    /\ UNCHANGED <<settings, installed, inst, clock, userActive, pwExpired, nreq>>

handler_session(sess, effect) ==
    CASE effect = "login" -> Put(sess, SESSION_KEY, "1")
      [] effect = "write" -> Put(sess, "cart", "x")
      [] OTHER -> sess

handler_response(cc) ==
    [status |-> 200,
     headers |-> IF cc THEN [x \in {"Cache-Control"} |-> "public"] ELSE EmptyMap,
     body |-> <<"ok">>]

(* The downstream handler (the view) *)
Handler(Effects, CacheHeaders) ==
    /\ pc = "handler"
    /\ \E e \in Effects : session' = handler_session(session, e)
    /\ \E cc \in CacheHeaders : response' = handler_response(cc)
    /\ request' = [request EXCEPT !.handled = TRUE]
    /\ pc' = "response"
    /\ idx' = 1
    /\ UNCHANGED <<settings, installed, inst, clock, userActive, pwExpired, nreq>>

(* The next unit's on-response hook *)
ResponseStep ==
    /\ pc = "response"
    /\ idx <= Len(installed)
    /\ response' = process_response(installed[idx], request, response)
    /\ idx' = idx + 1
    /\ UNCHANGED <<settings, installed, inst, clock, session, userActive, pwExpired,
                   pc, request, nreq>>

(* The response is sent, or the exception reaches the host's error handler *)
Finish ==
    /\ \/ pc = "response" /\ idx > Len(installed)
       \/ pc = "error"
    /\ pc' = "idle"
    /\ idx' = 1
    /\ UNCHANGED <<settings, installed, inst, clock, session, userActive, pwExpired,
                   request, response, nreq>>

----------------------------------------------------------------------------
(* The session-expiry unit alone in the pipeline *)

SessionSettings ==
    { [BaseSettings EXCEPT !.MIDDLEWARE_CLASSES = <<"SessionExpiryPolicy">>,
                           !.SESSION_COOKIE_AGE = c[1],
                           !.SESSION_INACTIVITY_TIMEOUT = c[2]] :
        c \in { <<Value(CookieAgeSetting), Value(TimeoutSetting)>>,
                <<Unset, Value(DEFAULT_SESSION_COOKIE_AGE)>>,
                <<Unset, Unset>> } }

(* Sessions the store may hold when the unit first sees them *)
StoredSessions ==
    { EmptyMap,
      [k \in {START_TIME_KEY, "cart"} |-> IF k = "cart" THEN "x" ELSE 0],
      [k \in {LAST_ACTIVITY_KEY} |-> 0] }

(* Times between requests, in ticks: around each of the two limits *)
ClockSteps ==
    { 0, 1, TicksPerSecond,
      SESSION_INACTIVITY_TIMEOUT * TicksPerSecond,
      SESSION_INACTIVITY_TIMEOUT * TicksPerSecond + 1,
      (SESSION_INACTIVITY_TIMEOUT + 1) * TicksPerSecond,
      SESSION_COOKIE_AGE * TicksPerSecond,
      (SESSION_COOKIE_AGE + 1) * TicksPerSecond }

InitSession == InitWith(SessionSettings, StoredSessions)

ArriveSession == Arrive({<<"/", "a">>}, {<<>>}, {FALSE}, {"view"}, ClockSteps, {TRUE}, {FALSE})

HandlerSession == Handler({"none", "login", "write"}, {FALSE})

NextSession ==
    \/ ArriveSession
    \/ RequestStep
    \/ ViewStep
    \/ HandlerSession
    \/ ResponseStep
    \/ Finish

SpecSession == InitSession /\ [][NextSession]_vars

(* The session-expiry unit is about to run / has just run on this request *)
AtUnit(name) == pc = "request" /\ idx <= Len(installed) /\ installed[idx] = name

PastUnit(name) ==
    /\ pc = "request"
    /\ idx > 1
    /\ idx - 1 <= Len(installed)
    /\ installed[idx - 1] = name

HasBothMarkers(sess) == Has(sess, START_TIME_KEY) /\ Has(sess, LAST_ACTIVITY_KEY)

(* Whole seconds elapsed since a marker, the sub-second part discarded *)
WholeSeconds(now, then) == (now - then) \div TicksPerSecond

AgeSeconds == WholeSeconds(clock, session[START_TIME_KEY])
IdleSeconds == WholeSeconds(clock, session[LAST_ACTIVITY_KEY])

Cleared(sess) == sess = EmptyMap

(* C3: the expiry comparisons are strict and in whole seconds: at          *)
(* age = SESSION_COOKIE_AGE and idle = SESSION_INACTIVITY_TIMEOUT (any     *)
(* sub-second part) the session is not cleared; one second more on either  *)
(* side clears it.                                                         *)
C3_StrictWholeSeconds ==
    [][ (AtUnit("SessionExpiryPolicy") /\ HasBothMarkers(session)) =>
          /\ (AgeSeconds <= SESSION_COOKIE_AGE /\ IdleSeconds <= SESSION_INACTIVITY_TIMEOUT)
                => ~Cleared(session')
          /\ (AgeSeconds >= SESSION_COOKIE_AGE + 1) => Cleared(session')
          /\ (IdleSeconds >= SESSION_INACTIVITY_TIMEOUT + 1) => Cleared(session') ]_vars

(* Reached: the unit has run at exactly age = max age and idle = timeout,  *)
(* with a sub-second remainder, and the session is still there.            *)
C3_Witness ==
    /\ PastUnit("SessionExpiryPolicy")
    /\ HasBothMarkers(session)
    /\ session[LAST_ACTIVITY_KEY] = clock
    /\ WholeSeconds(clock, session[START_TIME_KEY]) = SESSION_COOKIE_AGE
    /\ (clock - session[START_TIME_KEY]) % TicksPerSecond # 0
    /\ SESSION_COOKIE_AGE > SESSION_INACTIVITY_TIMEOUT

Stamped(sess, now) == Put(Put(sess, START_TIME_KEY, now), LAST_ACTIVITY_KEY, now)

(* C4 as stated: the session is stamped as fresh iff it lacks both         *)
(* markers; a session with only one marker keeps its start time.           *)
C4_Original ==
    [][ AtUnit("SessionExpiryPolicy") =>
          /\ (~Has(session, START_TIME_KEY) /\ ~Has(session, LAST_ACTIVITY_KEY))
                => session' = Stamped(session, clock)
          /\ Has(session, START_TIME_KEY) =>
                (Cleared(session') \/ session'[START_TIME_KEY] = session[START_TIME_KEY])
      ]_vars

(* C4 amended: the session is stamped as fresh (both markers set to now,   *)
(* nothing else changed) iff it lacks at least one of the two markers; a   *)
(* session holding both keeps its start time or is cleared.                *)
C4_FreshIffAMarkerMissing ==
    [][ AtUnit("SessionExpiryPolicy") =>
          /\ ~HasBothMarkers(session) => session' = Stamped(session, clock)
          /\ HasBothMarkers(session) =>
                (Cleared(session') \/ session'[START_TIME_KEY] = session[START_TIME_KEY])
      ]_vars

(* Reached: a session that held only an old start-time marker has been     *)
(* stamped afresh at a later time.                                         *)
C4_Witness ==
    /\ PastUnit("SessionExpiryPolicy")
    /\ nreq = 1
    /\ clock > 0
    /\ Has(session, "cart")
    /\ HasBothMarkers(session)
    /\ session[START_TIME_KEY] = clock

(* C5: an expired session is emptied (every key, nothing stamped); an      *)
(* active one has only its last-activity marker set to now; either way the *)
(* hook returns no response and the pipeline goes on.                      *)
C5_ClearOrTouch ==
    [][ (AtUnit("SessionExpiryPolicy") /\ HasBothMarkers(session)) =>
          /\ IF AgeSeconds > SESSION_COOKIE_AGE \/ IdleSeconds > SESSION_INACTIVITY_TIMEOUT
             THEN DOMAIN session' = {}
             ELSE /\ DOMAIN session' = DOMAIN session
                  /\ session'[LAST_ACTIVITY_KEY] = clock
                  /\ \A k \in (DOMAIN session) \ {LAST_ACTIVITY_KEY} : session'[k] = session[k]
          /\ response' = NoResponse
          /\ pc' = "request"
          /\ idx' = idx + 1 ]_vars

(* Reached: a session that carried the login and an application key has    *)
(* been emptied by the unit on a later request.                            *)
C5_Witness ==
    /\ PastUnit("SessionExpiryPolicy")
    /\ nreq >= 2
    /\ DOMAIN session = {}
    /\ response = NoResponse

(* C6: a request within both timeouts never removes a key of the session   *)
(* and never moves the last-activity marker backwards, and no other step   *)
(* of the request does either.                                             *)
C6_ActiveKeepsSession ==
    [][ ~( /\ AtUnit("SessionExpiryPolicy")
           /\ HasBothMarkers(session)
           /\ (AgeSeconds > SESSION_COOKIE_AGE \/ IdleSeconds > SESSION_INACTIVITY_TIMEOUT) )
        => /\ DOMAIN session \subseteq DOMAIN session'
           /\ Has(session, LAST_ACTIVITY_KEY) =>
                 session'[LAST_ACTIVITY_KEY] >= session[LAST_ACTIVITY_KEY]
           /\ Has(session, START_TIME_KEY) /\ Has(session, LAST_ACTIVITY_KEY) =>
                 session'[START_TIME_KEY] = session[START_TIME_KEY] ]_vars

(* Reached: the third request in a row within both timeouts, the session   *)
(* still holding its first start time and a later last-activity time.      *)
C6_Witness ==
    /\ PastUnit("SessionExpiryPolicy")
    /\ nreq = 3
    /\ HasBothMarkers(session)
    /\ session[START_TIME_KEY] = 0
    /\ session[LAST_ACTIVITY_KEY] = clock
    /\ clock > TicksPerSecond

(* C15: activity cannot carry a session past its maximum age. No step      *)
(* changes the start time of a session that holds both markers and still   *)
(* holds them afterwards; a request arriving more than SESSION_COOKIE_AGE  *)
(* whole seconds after the start time empties the session, however recent  *)
(* the last activity, so a session that leaves the unit with its markers   *)
(* is no older than that; and a request on a session without markers, as   *)
(* the one after the clear, has both stamped with its own time.            *)
C15_AgeCapsSession ==
    [][ /\ (HasBothMarkers(session) /\ HasBothMarkers(session')) =>
              session'[START_TIME_KEY] = session[START_TIME_KEY]
        /\ (/\ AtUnit("SessionExpiryPolicy")
            /\ HasBothMarkers(session)
            /\ AgeSeconds > SESSION_COOKIE_AGE) => Cleared(session')
        /\ (AtUnit("SessionExpiryPolicy") /\ HasBothMarkers(session')) =>
              WholeSeconds(clock, session'[START_TIME_KEY]) <= SESSION_COOKIE_AGE
        /\ (/\ AtUnit("SessionExpiryPolicy")
            /\ ~Has(session, START_TIME_KEY)
            /\ ~Has(session, LAST_ACTIVITY_KEY)) =>
              /\ HasBothMarkers(session')
              /\ session'[START_TIME_KEY] = clock
              /\ session'[LAST_ACTIVITY_KEY] = clock ]_vars

(* Reached: the third request, later than any first request can be, has    *)
(* its own time as start time: the second request emptied the session the  *)
(* first had stamped, and the third was stamped afresh.                    *)
C15_Witness ==
    /\ PastUnit("SessionExpiryPolicy")
    /\ nreq = 3
    /\ settings.SESSION_COOKIE_AGE.set
    /\ HasBothMarkers(session)
    /\ session[START_TIME_KEY] = clock
    /\ session[LAST_ACTIVITY_KEY] = clock
    /\ clock > (SESSION_COOKIE_AGE + 1) * TicksPerSecond

----------------------------------------------------------------------------
(* The login-required unit alone in the pipeline *)

ExemptPatterns ==
    { compile(<<"a">>, FALSE), compile(<<"a">>, TRUE), compile(<<"b", "/">>, FALSE) }

ExemptLists == SeqsUpTo(ExemptPatterns, 2)

LoginSettings ==
    { [BaseSettings EXCEPT !.MIDDLEWARE_CLASSES = <<"LoginRequired">>,
                           !.LOGIN_EXEMPT_URLS = e,
                           !.LOGIN_URL = u] :
        e \in {Unset} \cup {Value(l) : l \in ExemptLists},
        u \in {<<"/", "a">>} }
    \cup
    { [BaseSettings EXCEPT !.MIDDLEWARE_CLASSES = <<"LoginRequired">>,
                           !.LOGIN_EXEMPT_URLS = e,
                           !.LOGIN_URL = <<"/", "b", "/">>] :
        e \in {Unset, Value(<<compile(<<"b">>, FALSE)>>)} }
    \cup
    { [BaseSettings EXCEPT !.MIDDLEWARE_CLASSES = <<"LoginRequired">>,
                           !.AUTHENTICATION = FALSE] }

LoggedIn == [k \in {SESSION_KEY} |-> "1"]

InitLogin == InitWith(LoginSettings, {LoggedIn})

ArriveLogin ==
    Arrive(SeqsUpTo(Chars, MaxPathLen), {<<>>, <<"/", "s">>}, BOOLEAN, {"view"}, {0},
           BOOLEAN, {FALSE})

HandlerLogin == Handler({"none", "login"}, {FALSE})

NextLogin ==
    \/ ArriveLogin
    \/ RequestStep
    \/ ViewStep
    \/ HandlerLogin
    \/ ResponseStep
    \/ Finish

SpecLogin == InitLogin /\ [][NextLogin]_vars

(* The path without its leading slashes, and the exemption of a path, said *)
(* without the unit's own helpers                                          *)
LeadingSlashes(p) ==
    CHOOSE n \in 0..Len(p) :
        /\ \A i \in 1..n : p[i] = "/"
        /\ n < Len(p) => p[n + 1] # "/"

Stripped(p) == [i \in 1..(Len(p) - LeadingSlashes(p)) |-> p[i + LeadingSlashes(p)]]

MatchesPattern(pat, p) ==
    /\ Len(pat.lit) <= Len(p)
    /\ \A i \in 1..Len(pat.lit) : p[i] = pat.lit[i]
    /\ pat.dollar => Len(p) = Len(pat.lit)

ConfiguredExemptions ==
    IF settings.LOGIN_EXEMPT_URLS.set THEN settings.LOGIN_EXEMPT_URLS.val ELSE <<>>

PathExempt ==
    \E i \in 1..Len(ConfiguredExemptions) :
        MatchesPattern(ConfiguredExemptions[i], Stripped(request.path_info))

(* The identity as the unit will see it: not logged in, or inactive *)
Unauthenticated == ~Has(session, SESSION_KEY) \/ ~userActive

(* C1: the login-required hook returns a terminal response iff the         *)
(* identity is unauthenticated (an inactive identity is logged out first,  *)
(* its session flushed) and the path, leading slashes stripped, matches no *)
(* exemption pattern; otherwise it returns nothing and the request goes on *)
C1_ShortCircuitIff ==
    [][ (AtUnit("LoginRequired") /\ request.has_user) =>
          /\ (Unauthenticated /\ ~PathExempt)
                <=> (response' # NoResponse /\ pc' = "response")
          /\ ~(Unauthenticated /\ ~PathExempt)
                => (response' = NoResponse /\ pc' = "request" /\ idx' = idx + 1)
          /\ (Has(session, SESSION_KEY) /\ ~userActive) => session' = EmptyMap
          /\ ~(Has(session, SESSION_KEY) /\ ~userActive) => session' = session ]_vars

(* Reached: a logged-in but inactive identity was logged out and the       *)
(* request, for a path with leading slashes under a non-empty exemption    *)
(* list, was answered by the unit.                                         *)
C1_Witness ==
    /\ pc = "response"
    /\ ~request.handled
    /\ nreq = 1
    /\ ~userActive
    /\ session = EmptyMap
    /\ Len(ConfiguredExemptions) > 0
    /\ Len(request.path_info) = 2
    /\ request.path_info[1] = "/"

(* C2: the unit's terminal response depends on the AJAX flag alone: 401    *)
(* with the JSON body {"login_url": LOGIN_URL}, or a redirect to           *)
(* LOGIN_URL?next=<request path>.                                          *)
C2_TerminalResponse ==
    (pc = "response" /\ ~request.handled) =>
        IF request.is_ajax
        THEN /\ response.status = 401
             /\ response.body = <<"{", "\"login_url\"", ":", " ", "\"">>
                                   \o settings.LOGIN_URL \o <<"\"", "}">>
             /\ ~Has(response.headers, "Location")
        ELSE /\ response.status = 302
             /\ response.headers["Location"]
                   = settings.LOGIN_URL \o <<"?next=">> \o request.path
             /\ response.body = <<>>

(* Reached: a redirect for a request served under a script prefix, whose   *)
(* request path differs from the path the exemptions are matched against.  *)
C2_Witness ==
    /\ pc = "response"
    /\ ~request.handled
    /\ response.status = 302
    /\ request.path # request.path_info
    /\ request.path_info # <<>>

----------------------------------------------------------------------------
(* The session-expiry and login-required units together, in either order   *)

PipelineSettings ==
    { [BaseSettings EXCEPT !.MIDDLEWARE_CLASSES = order,
                           !.LOGIN_EXEMPT_URLS = Value(<<compile(<<"a">>, FALSE)>>),
                           !.SESSION_COOKIE_AGE = Value(CookieAgeSetting),
                           !.SESSION_INACTIVITY_TIMEOUT = Value(TimeoutSetting)] :
        order \in { <<"SessionExpiryPolicy", "LoginRequired">>,
                    <<"LoginRequired", "SessionExpiryPolicy">> } }

InitPipeline == InitWith(PipelineSettings, {EmptyMap})

ArrivePipeline ==
    Arrive({<<"/", "a">>, <<"/", "b">>}, {<<>>}, BOOLEAN, {"view"}, ClockSteps,
           {TRUE}, {FALSE})

HandlerPipeline == Handler({"none", "login", "write"}, {FALSE})

NextPipeline ==
    \/ ArrivePipeline
    \/ RequestStep
    \/ ViewStep
    \/ HandlerPipeline
    \/ ResponseStep
    \/ Finish

SpecPipeline == InitPipeline /\ [][NextPipeline]_vars

ExpiryFirst == installed = <<"SessionExpiryPolicy", "LoginRequired">>

ExpiredNow ==
    /\ HasBothMarkers(session)
    /\ (AgeSeconds > SESSION_COOKIE_AGE \/ IdleSeconds > SESSION_INACTIVITY_TIMEOUT)

(* C7: with the session-expiry unit registered before the login-required   *)
(* unit, a request on an expired session is cleared by the first and, for  *)
(* a non-exempt path, answered by the second within the same request, so   *)
(* the handler runs for a non-exempt path only on a session that is logged *)
(* in and within its age; the session-expiry unit never answers itself.    *)
C7_ExpiryThenLogin ==
    /\ [][ AtUnit("SessionExpiryPolicy") =>
              (response' = NoResponse /\ pc' = "request" /\ idx' = idx + 1) ]_vars
    /\ [][ (ExpiryFirst /\ AtUnit("SessionExpiryPolicy") /\ ExpiredNow) =>
              (session' = EmptyMap /\ request'.user = "lazy") ]_vars
    /\ [][ (ExpiryFirst /\ AtUnit("LoginRequired") /\ session = EmptyMap /\ ~PathExempt) =>
              (pc' = "response" /\ response'.status \in {302, 401} /\ ~request'.handled)
       ]_vars
    /\ [][ (pc = "response" /\ ~request.handled) =>
              (pc' \in {"response", "idle"} /\ ~request'.handled) ]_vars
    /\ [] ( (ExpiryFirst /\ pc = "handler" /\ ~PathExempt) =>
              /\ Has(session, SESSION_KEY)
              /\ HasBothMarkers(session)
              /\ AgeSeconds <= SESSION_COOKIE_AGE )

(* Reached: the session that carried a login was cleared on this request   *)
(* and the login-required unit answered it.                                *)
C7_Witness ==
    /\ ExpiryFirst
    /\ pc = "response"
    /\ ~request.handled
    /\ nreq >= 2
    /\ session = EmptyMap
    /\ response.status = 302

----------------------------------------------------------------------------
(* The mandatory password-change unit alone in the pipeline *)

PasswordSettings ==
    { [BaseSettings EXCEPT !.MIDDLEWARE_CLASSES = <<"MandatoryPasswordChange">>,
                           !.MANDATORY_PASSWORD_CHANGE = c] :
        c \in { Unset,
                Value([URL_NAME |-> "password_change", EXEMPT_URL_NAMES |-> <<>>]),
                Value([URL_NAME |-> "password_change", EXEMPT_URL_NAMES |-> <<"home">>]),
                Value([URL_NAME |-> "home", EXEMPT_URL_NAMES |-> <<>>]),
                Value([URL_NAME |-> "password_change"]),
                Value([URL_NAME |-> "password_change", EXEMPT_URL_NAMES |-> <<"nowhere">>]),
                Value([URL_NAME |-> "nowhere", EXEMPT_URL_NAMES |-> <<>>]) } }

InitPassword == InitWith(PasswordSettings, {EmptyMap, LoggedIn})

ArrivePassword ==
    Arrive(SeqsUpTo(Chars, MaxPathLen), {<<>>}, {FALSE},
           {"view", "django.views.static.serve"}, {0}, {TRUE}, BOOLEAN)

HandlerPassword == Handler({"none", "login"}, {FALSE})

NextPassword ==
    \/ ArrivePassword
    \/ RequestStep
    \/ ViewStep
    \/ HandlerPassword
    \/ ResponseStep
    \/ Finish

SpecPassword == InitPassword /\ [][NextPassword]_vars

AtView(name) == pc = "request" /\ idx > Len(installed) /\ InSeq(name, installed)

PasswordConfig == settings.MANDATORY_PASSWORD_CHANGE.val

PasswordChangeUrl == reverse(PasswordConfig["URL_NAME"])

PasswordExemptPath ==
    \/ request.path = PasswordChangeUrl
    \/ \E i \in 1..Len(PasswordConfig["EXEMPT_URL_NAMES"]) :
          request.path = reverse(PasswordConfig["EXEMPT_URL_NAMES"][i])

(* C9: the unit redirects to the password-change URL iff the request is    *)
(* authenticated, its path is not exempt (the password-change URL, the     *)
(* static-file view, a configured exempt URL) and the password is expired  *)
(* at that request; otherwise the request reaches the handler.             *)
C9_RedirectIff ==
    [][ (AtView("MandatoryPasswordChange") /\ request.has_user) =>
          IF /\ Has(session, SESSION_KEY)
             /\ request.view # "django.views.static.serve"
             /\ ~PasswordExemptPath
             /\ pwExpired
          THEN /\ pc' = "response"
               /\ response'.status = 302
               /\ response'.headers["Location"] = PasswordChangeUrl
               /\ ~request'.handled
          ELSE /\ pc' = "handler"
               /\ response' = NoResponse ]_vars

(* Reached: a second request of a logged-in identity, redirected because   *)
(* the password is expired now, under a configuration with an exempt URL.  *)
C9_Witness ==
    /\ installed = <<"MandatoryPasswordChange">>
    /\ pc = "response"
    /\ ~request.handled
    /\ nreq = 2
    /\ response.status = 302
    /\ Len(inst["MandatoryPasswordChange"].exempt_urls) = 2

----------------------------------------------------------------------------
(* The cache-control unit alone in the pipeline *)

Opt(k, v) == [x \in {k} |-> v]

Merge(f, g) == [x \in (DOMAIN f) \cup (DOMAIN g) |-> IF x \in DOMAIN g THEN g[x] ELSE f[x]]

RECURSIVE MergeAll(_)
MergeAll(fs) == IF fs = <<>> THEN EmptyMap ELSE Merge(Head(fs), MergeAll(Tail(fs)))

CacheRegexLists ==
    { <<compile(<<"a">>, FALSE)>>,
      <<compile(<<"b">>, TRUE), compile(<<"a", "b">>, FALSE)>> }

CacheConfigs ==
    { MergeAll(<<w, wr, b, br>>) :
        w \in {EmptyMap, Opt("WHITELIST_ON", TRUE), Opt("WHITELIST_ON", FALSE)},
        wr \in {EmptyMap} \cup {Opt("WHITELIST_REGEXES", l) : l \in CacheRegexLists},
        b \in {EmptyMap, Opt("BLACKLIST_ON", TRUE), Opt("BLACKLIST_ON", FALSE)},
        br \in {EmptyMap} \cup {Opt("BLACKLIST_REGEXES", l) : l \in CacheRegexLists} }

CacheSettings ==
    { [BaseSettings EXCEPT !.MIDDLEWARE_CLASSES = <<"NoConfidentialCaching">>,
                           !.NO_CONFIDENTIAL_CACHING = c] :
        c \in {Unset} \cup {Value(cfg) : cfg \in CacheConfigs} }

InitCache == InitWith(CacheSettings, {EmptyMap})

ArriveCache ==
    Arrive(SeqsUpTo(Chars, MaxPathLen), {<<>>, <<"/">>}, {FALSE}, {"view"}, {0},
           {TRUE}, {FALSE})

HandlerCache == Handler({"none"}, BOOLEAN)

NextCache ==
    \/ ArriveCache
    \/ RequestStep
    \/ ViewStep
    \/ HandlerCache
    \/ ResponseStep
    \/ Finish

SpecCache == InitCache /\ [][NextCache]_vars

AtResponseUnit(name) == pc = "response" /\ idx <= Len(installed) /\ installed[idx] = name

CacheConfig == settings.NO_CONFIDENTIAL_CACHING.val

ModeOn(key) == Has(CacheConfig, key) /\ CacheConfig[key]

MatchesSome(key, p) ==
    \E i \in 1..Len(CacheConfig[key]) : MatchesPattern(CacheConfig[key][i], Stripped(p))

Confidential ==
    \/ ModeOn("WHITELIST_ON") /\ ~MatchesSome("WHITELIST_REGEXES", request.path)
    \/ ModeOn("BLACKLIST_ON") /\ MatchesSome("BLACKLIST_REGEXES", request.path)

(* C8: Cache-Control is overwritten with 'no-cache, no-store, private' iff *)
(* (whitelist mode is on and the stripped path matches no whitelist        *)
(* pattern) or (blacklist mode is on and it matches a blacklist pattern),  *)
(* the two checks being independent; otherwise the response is unchanged.  *)
C8_ConfidentialIff ==
    [][ AtResponseUnit("NoConfidentialCaching") =>
          IF Confidential
          THEN response' = [response EXCEPT !.headers =
                  [h \in (DOMAIN response.headers) \cup {"Cache-Control"} |->
                      IF h = "Cache-Control" THEN "no-cache, no-store, private"
                      ELSE response.headers[h]]]
          ELSE response' = response ]_vars

(* Reached: both modes on, the path matches the whitelist and the          *)
(* blacklist, and the handler's Cache-Control has been overwritten.        *)
C8_Witness ==
    /\ installed = <<"NoConfidentialCaching">>
    /\ pc = "response"
    /\ idx = 2
    /\ ModeOn("WHITELIST_ON")
    /\ ModeOn("BLACKLIST_ON")
    /\ MatchesSome("WHITELIST_REGEXES", request.path)
    /\ MatchesSome("BLACKLIST_REGEXES", request.path)
    /\ response.headers["Cache-Control"] = "no-cache, no-store, private"

----------------------------------------------------------------------------
(* The CSP unit alone in the pipeline *)

CspItems ==
    { <<"default-src", <<"self", "cdn.example.com">>>>,
      <<"img-src", <<"none">>>>,
      <<"sandbox", <<"allow-forms", "">>>>,
      <<"sandbox", <<"allow-popups">>>>,
      <<"report-uri", <<"/", "a">>>>,
      <<"plugin-types", <<"self">>>> }

DistinctKeys(d) == \A i, j \in 1..Len(d) : d[i][1] = d[j][1] => i = j

CspDicts == { d \in SeqsUpTo(CspItems, MaxCspItems) : DistinctKeys(d) }

CspSettings ==
    { [BaseSettings EXCEPT !.MIDDLEWARE_CLASSES = <<"ContentSecurityPolicy">>,
                           !.CSP_MODE = m, !.CSP_STRING = str, !.CSP_DICT = d] :
        m \in {Unset, Value("enforce"), Value("report-only"), Value("monitor")},
        str \in {Unset, Value(<<"default-src 'self'">>)},
        d \in {Unset} \cup {Value(x) : x \in CspDicts} }

InitCsp == InitWith(CspSettings, {EmptyMap})

ArriveCsp == Arrive({<<"/", "a">>}, {<<>>}, BOOLEAN, {"view"}, {0}, {TRUE}, {FALSE})

HandlerCsp == Handler({"none"}, BOOLEAN)

NextCsp ==
    \/ ArriveCsp
    \/ RequestStep
    \/ ViewStep
    \/ HandlerCsp
    \/ ResponseStep
    \/ Finish

SpecCsp == InitCsp /\ [][NextCsp]_vars

EnforceHeaders == {"X-Content-Security-Policy", "Content-Security-Policy", "X-WebKit-CSP"}

ReportOnlyHeaders ==
    {"X-Content-Security-Policy-Report-Only", "Content-Security-Policy-Report-Only"}

CspHeadersOf(resp) == (DOMAIN resp.headers) \cap (EnforceHeaders \cup ReportOnlyHeaders)

AllowedDirectives ==
    {"default-src", "script-src", "style-src", "img-src", "connect-src", "font-src",
     "object-src", "media-src", "frame-src", "sandbox", "report-uri"}

AllowedSandboxTokens ==
    {"", "allow-forms", "allow-same-origin", "allow-scripts", "allow-top-navigation"}

BadCspDict(d) ==
    \E i \in 1..Len(d) :
        \/ d[i][1] \notin AllowedDirectives
        \/ d[i][1] = "sandbox" /\ \E j \in 1..Len(d[i][2]) : d[i][2][j] \notin AllowedSandboxTokens

BadCspConfig ==
    \/ settings.CSP_STRING.set /\ settings.CSP_DICT.set
    \/ ~settings.CSP_STRING.set /\ ~settings.CSP_DICT.set
    \/ settings.CSP_DICT.set /\ BadCspDict(settings.CSP_DICT.val)

(* C10: with both or neither of CSP_STRING and CSP_DICT configured, or a   *)
(* directive name or sandbox token outside the allow-lists, the unit is    *)
(* not installed and no response carries a CSP header; when installed, a   *)
(* response that has passed it carries one and the same policy string      *)
(* under exactly the three enforce headers, or exactly the two report-only *)
(* headers, according to CSP_MODE.                                         *)
C10_CspExcludedOrExact ==
    /\ BadCspConfig => (installed = <<>> /\ CspHeadersOf(response) = {})
    /\ (installed # <<>> /\ pc = "response" /\ idx > 1) =>
          /\ CspHeadersOf(response) =
                IF settings.CSP_MODE.set /\ settings.CSP_MODE.val = "report-only"
                THEN ReportOnlyHeaders ELSE EnforceHeaders
          /\ \A h, g \in CspHeadersOf(response) : response.headers[h] = response.headers[g]
          /\ settings.CSP_STRING.set =>
                \A h \in CspHeadersOf(response) : response.headers[h] = settings.CSP_STRING.val
    /\ (pc = "response" /\ idx = 1) => CspHeadersOf(response) = {}

(* Reached: the unit, built from a dictionary in report-only mode, has     *)
(* put its headers on a response.                                          *)
C10_Witness ==
    /\ installed = <<"ContentSecurityPolicy">>
    /\ settings.CSP_DICT.set
    /\ Len(settings.CSP_DICT.val) = 2
    /\ settings.CSP_MODE.set
    /\ settings.CSP_MODE.val = "report-only"
    /\ pc = "response"
    /\ idx = 2
    /\ CspHeadersOf(response) = ReportOnlyHeaders

(* s[from..to] holds the tokens toks in their order *)
RECURSIVE TokensWithin(_, _, _, _)
TokensWithin(toks, s, from, to) ==
    IF toks = <<>> THEN TRUE
    ELSE IF from > to THEN FALSE
    ELSE IF s[from] = Head(toks) THEN TokensWithin(Tail(toks), s, from + 1, to)
    ELSE TokensWithin(toks, s, from + 1, to)

(* text holds the directive: its name, then its tokens, then the first ";" *)
DirectiveIn(text, k, toks) ==
    \E p, q \in 1..Len(text) :
        /\ p < q
        /\ text[p] = k
        /\ text[q] = ";"
        /\ \A r \in (p + 1)..(q - 1) : text[r] # ";"
        /\ TokensWithin(toks, text, p + 1, q - 1)

(* C11: for a CSP_DICT holding only allow-listed directive names with      *)
(* allowed tokens, the policy string the unit builds holds, for each       *)
(* directive of the dictionary, its name followed by its tokens and ";".   *)
C11_Original ==
    (/\ settings.CSP_DICT.set
     /\ ~settings.CSP_STRING.set
     /\ ~BadCspDict(settings.CSP_DICT.val)
     /\ installed = <<"ContentSecurityPolicy">>) =>
        \A i \in 1..Len(settings.CSP_DICT.val) :
            DirectiveIn(inst["ContentSecurityPolicy"]._csp_string,
                        settings.CSP_DICT.val[i][1], settings.CSP_DICT.val[i][2])

----------------------------------------------------------------------------
(* The header units, each followed in the pipeline by the no-sniff unit    *)

XssValues ==
    {XSS_ON, <<"O", "N">>, XSS_OFF, XSS_SANITIZE, <<"n", "o">>}

XssSettings ==
    { [BaseSettings EXCEPT !.MIDDLEWARE_CLASSES = <<"XssProtect", "ContentNoSniff">>,
                           !.XSS_PROTECT = x] :
        x \in {Unset} \cup {Value(v) : v \in XssValues} }

XFrameValues ==
    {XFO_DENY, <<"D", "E", "N", "Y">>, XFO_SAMEORIGIN,
     XFO_ALLOW_FROM \o <<"/", "a">>, XFO_ALLOW_FROM \o <<"/", "A">>,
     <<"a", "l", "l", "o", "w", "-", "f", "r", "o", "m", " ", "/", "a">>,
     <<"n", "o">>}

XFrameSettings ==
    { [BaseSettings EXCEPT !.MIDDLEWARE_CLASSES = <<"XFrameOptions", "ContentNoSniff">>,
                           !.X_FRAME_OPTIONS = x] :
        x \in {Unset} \cup {Value(v) : v \in XFrameValues} }

StsSettings ==
    { [BaseSettings EXCEPT !.MIDDLEWARE_CLASSES = <<"StrictTransportSecurity", "ContentNoSniff">>,
                           !.STS_MAX_AGE = a, !.STS_INCLUDE_SUBDOMAINS = d] :
        a \in {Unset, Value(600)},
        d \in {Unset, Value(TRUE), Value(FALSE)} }

P3PSettings ==
    { [BaseSettings EXCEPT !.MIDDLEWARE_CLASSES = <<"P3PPolicy", "ContentNoSniff">>,
                           !.P3P_COMPACT_POLICY = c, !.P3P_POLICY_URL = u] :
        c \in {Unset, Value(<<"CAO PSA OUR">>)},
        u \in {Unset, Value(<<"/", "a">>)} }

HeaderSettings == XssSettings \cup XFrameSettings \cup StsSettings \cup P3PSettings

InitHeaders == InitWith(HeaderSettings, {EmptyMap})

ArriveHeaders == Arrive({<<"/", "a">>}, {<<>>}, {FALSE}, {"view"}, {0}, {TRUE}, {FALSE})

HandlerHeaders == Handler({"none", "write"}, BOOLEAN)

NextHeaders ==
    \/ ArriveHeaders
    \/ RequestStep
    \/ ViewStep
    \/ HandlerHeaders
    \/ ResponseStep
    \/ Finish

SpecHeaders == InitHeaders /\ [][NextHeaders]_vars

ConstructionOutcomes ==
    { construct(settings.MIDDLEWARE_CLASSES[i]).status :
        i \in 1..Len(settings.MIDDLEWARE_CLASSES) }

(* C12: constructing a unit ends in one of two ways, installed or          *)
(* MiddlewareNotUsed, whatever its settings hold; the units that are       *)
(* installed make up the pipeline, and no request fails for a setting.     *)
C12_Original ==
    /\ ConstructionOutcomes \subseteq {"installed", "MiddlewareNotUsed"}
    /\ installed = SelectSeq(settings.MIDDLEWARE_CLASSES, is_used)
    /\ pc # "error"

XFrameConfigured == settings.MIDDLEWARE_CLASSES[1] = "XFrameOptions"

(* The configured value is one of deny, sameorigin, allow-from:X *)
ClickjackingMode ==
    /\ settings.X_FRAME_OPTIONS.set
    /\ \/ settings.X_FRAME_OPTIONS.val \in {XFO_DENY, XFO_SAMEORIGIN}
       \/ IsPrefix(XFO_ALLOW_FROM, settings.X_FRAME_OPTIONS.val)

(* C13: with X_FRAME_OPTIONS one of deny, sameorigin, allow-from:X, every  *)
(* response carries X-Frame-Options equal to the configured value exactly; *)
(* with the setting unset or invalid, it carries sameorigin.               *)
C13_Original ==
    XFrameConfigured =>
        /\ installed = <<"XFrameOptions", "ContentNoSniff">>
        /\ pc # "error"
        /\ (pc = "response" /\ idx > 1) =>
              /\ "X-Frame-Options" \in DOMAIN response.headers
              /\ response.headers["X-Frame-Options"] =
                    IF ClickjackingMode THEN settings.X_FRAME_OPTIONS.val
                    ELSE XFO_SAMEORIGIN

StsConfigured == settings.MIDDLEWARE_CLASSES[1] = "StrictTransportSecurity"

StsMaxAgeText(resp) == resp.headers["Strict-Transport-Security"][2]

StsIncludesSubdomains(resp) ==
    InSeq(" ; includeSubDomains", resp.headers["Strict-Transport-Security"])

(* C14: a response that has passed the transport-security unit carries     *)
(* max-age equal to STS_MAX_AGE when that is configured and 31536000 when  *)
(* it is not, and includeSubDomains unless STS_INCLUDE_SUBDOMAINS is       *)
(* configured false: each setting has its default whatever the other is.   *)
C14_Original ==
    (StsConfigured /\ pc = "response" /\ idx > 1) =>
        /\ "Strict-Transport-Security" \in DOMAIN response.headers
        /\ StsMaxAgeText(response) =
              IF settings.STS_MAX_AGE.set THEN ToString(settings.STS_MAX_AGE.val)
              ELSE "31536000"
        /\ StsIncludesSubdomains(response) <=>
              ~(settings.STS_INCLUDE_SUBDOMAINS.set /\ ~settings.STS_INCLUDE_SUBDOMAINS.val)

====
